---- MODULE Spec2Model ----
(***************************************************************************)
(* Chunk types of the PNG codec (src/chunk.rs): the ChunkType value type,  *)
(* the well-known chunk constants, the four classification predicates,     *)
(* the derived equality and hashing, and the Debug formatter.              *)
(*                                                                         *)
(* A byte is a number 0..255; a character is its Unicode code point; a     *)
(* string written by a formatter is the sequence of its code points.       *)
(* Rust indexes from 0 and TLA+ from 1: type_[k] of the source is          *)
(* type_[k + 1] here.                                                      *)
(***************************************************************************)
EXTENDS Integers, Sequences, FiniteSets, TLC

VARIABLES
    bytes,   \* the two 4-byte sequences the tags were constructed from
    tag,     \* a ChunkType value, constructed from bytes[1]
    other,   \* a second ChunkType value, constructed from bytes[2]
    res      \* the last operation applied and what it returned

vars == <<bytes, tag, other, res>>

----------------------------------------------------------------------------
(* Bounds of the model                                                     *)

\* how many of CtxBytes surround the byte that ranges over all of 0..255
NCtx == 2
\* how many of PairBytes the pairs of tags are built from
NPair == 2

----------------------------------------------------------------------------
(* u8 arithmetic                                                           *)

U8 == 0..255

\* a & b on 8-bit values, bit by bit
RECURSIVE BitAnd(_, _)
BitAnd(a, b) ==
    IF a = 0 \/ b = 0 THEN 0
    ELSE (IF a % 2 = 1 /\ b % 2 = 1 THEN 1 ELSE 0) + 2 * BitAnd(a \div 2, b \div 2)

----------------------------------------------------------------------------
(* pub struct ChunkType(pub [u8; 4]): a tuple struct with the one field 0  *)

ChunkType(a) == <<a>>

\* the public field .0
Field0(t) == t[1]

\* -- Critical chunks --
IHDR == ChunkType(<<73, 72, 68, 82>>)     \* b'I', b'H', b'D', b'R'
PLTE == ChunkType(<<80, 76, 84, 69>>)     \* b'P', b'L', b'T', b'E'
IDAT == ChunkType(<<73, 68, 65, 84>>)     \* b'I', b'D', b'A', b'T'
IEND == ChunkType(<<73, 69, 78, 68>>)     \* b'I', b'E', b'N', b'D'

\* -- Ancillary chunks --
tRNS == ChunkType(<<116, 82, 78, 83>>)    \* b't', b'R', b'N', b'S'
bKGD == ChunkType(<<98, 75, 71, 68>>)     \* b'b', b'K', b'G', b'D'
tIME == ChunkType(<<116, 73, 77, 69>>)    \* b't', b'I', b'M', b'E'
pHYs == ChunkType(<<112, 72, 89, 115>>)   \* b'p', b'H', b'Y', b's'
cHRM == ChunkType(<<99, 72, 82, 77>>)     \* b'c', b'H', b'R', b'M'
gAMA == ChunkType(<<103, 65, 77, 65>>)    \* b'g', b'A', b'M', b'A'
sRGB == ChunkType(<<115, 82, 71, 66>>)    \* b's', b'R', b'G', b'B'
iCCP == ChunkType(<<105, 67, 67, 80>>)    \* b'i', b'C', b'C', b'P'
tEXt == ChunkType(<<116, 69, 88, 116>>)   \* b't', b'E', b'X', b't'
zTXt == ChunkType(<<122, 84, 88, 116>>)   \* b'z', b'T', b'X', b't'
iTXt == ChunkType(<<105, 84, 88, 116>>)   \* b'i', b'T', b'X', b't'

\* -- Extension chunks --
acTL == ChunkType(<<97, 99, 84, 76>>)     \* b'a', b'c', b'T', b'L'
fcTL == ChunkType(<<102, 99, 84, 76>>)    \* b'f', b'c', b'T', b'L'
fdAT == ChunkType(<<102, 100, 65, 84>>)   \* b'f', b'd', b'A', b'T'

CRITICAL_CHUNKS == {IHDR, PLTE, IDAT, IEND}
ANCILLARY_CHUNKS == {tRNS, bKGD, tIME, pHYs, cHRM, gAMA, sRGB, iCCP, tEXt, zTXt, iTXt}
EXTENSION_CHUNKS == {acTL, fcTL, fdAT}

----------------------------------------------------------------------------
(* Chunk type determination                                                *)

\* a slip: the test is inverted
is_critical_inverted(ct) == LET type_ == ct[1] IN BitAnd(type_[1], 32) # 0

is_critical(ct) == LET type_ == ct[1] IN BitAnd(type_[1], 32) = 0

\* a slip: the byte examined is byte 0, the one is_critical examines
is_private_byte0(ct) == LET type_ == ct[1] IN BitAnd(type_[1], 32) # 0

\* a slip: the test is inverted
is_private_inverted(ct) == LET type_ == ct[1] IN BitAnd(type_[2], 32) = 0

is_private(ct) == LET type_ == ct[1] IN BitAnd(type_[2], 32) # 0

\* a slip: the bit tested is 64
reserved_set_bit64(ct) == LET type_ == ct[1] IN BitAnd(type_[3], 64) # 0

reserved_set(ct) == LET type_ == ct[1] IN BitAnd(type_[3], 32) # 0

\* a slip: the byte examined is byte 2, the one reserved_set examines
safe_to_copy_byte2(ct) == LET type_ == ct[1] IN BitAnd(type_[3], 32) # 0

safe_to_copy(ct) == LET type_ == ct[1] IN BitAnd(type_[4], 32) # 0

----------------------------------------------------------------------------
(* impl fmt::Debug for ChunkType                                           *)
(*                                                                         *)
(* char::from(c) maps the byte c to the code point U+0000..U+00FF of the   *)
(* same number, and char::escape_debug (core::char) renders it:            *)
(*   '\0' '\t' '\r' '\n' '\\' '"' '\''  -> a backslash and one character,  *)
(*   a printable character              -> the character itself,           *)
(*   anything else                      -> \u{h..h}, lowercase hex digits  *)
(*                                         without leading zeros.          *)
(* No code point below U+0100 is a grapheme extender, so that arm of       *)
(* escape_debug never applies to a byte.                                   *)
(* Toolchains older than Rust 1.53 write NUL as \u{0} instead of \0; the    *)
(* model follows the current core library.                                 *)

\* the code points the escapes are written with
Backslash == <<92>>

\* one lowercase hex digit as a character: '0'..'9', 'a'..'f'
HexDigit(d) == IF d < 10 THEN 48 + d ELSE 87 + d

\* the hex digits of n, most significant first, at least one digit
RECURSIVE HexDigits(_)
HexDigits(n) == IF n < 16 THEN <<HexDigit(n)>> ELSE HexDigits(n \div 16) \o <<HexDigit(n % 16)>>

\* char::escape_unicode: \u{NNNN}
escape_unicode(c) == Backslash \o <<117, 123>> \o HexDigits(c) \o <<125>>

\* a slip: DEL and the C1 controls are taken for printable
is_printable_wide(c) == c >= 32 /\ c # 173

\* core::unicode::printable::is_printable, on the code points below U+0100:
\* not the controls U+0000..U+001F, not U+007F..U+00A0, not the soft hyphen U+00AD
is_printable(c) ==
    IF c < 32 THEN FALSE
    ELSE IF c < 127 THEN TRUE
    ELSE ~(c \in 127..160) /\ c # 173

\* a slip: the backslash is written as it is
escape_debug_raw_backslash(c) ==
    CASE c = 0 -> Backslash \o <<48>>
      [] c = 9 -> Backslash \o <<116>>
      [] c = 13 -> Backslash \o <<114>>
      [] c = 10 -> Backslash \o <<110>>
      [] c = 34 -> Backslash \o <<34>>
      [] c = 39 -> Backslash \o <<39>>
      [] OTHER -> IF is_printable(c) THEN <<c>> ELSE escape_unicode(c)

\* char::from(c).escape_debug(), c a byte
escape_debug(c) ==
    CASE c = 0 -> Backslash \o <<48>>       \* \0
      [] c = 9 -> Backslash \o <<116>>      \* \t
      [] c = 13 -> Backslash \o <<114>>     \* \r
      [] c = 10 -> Backslash \o <<110>>     \* \n
      [] c = 92 -> Backslash \o <<92>>      \* \\
      [] c = 34 -> Backslash \o <<34>>      \* \"
      [] c = 39 -> Backslash \o <<39>>      \* \'
      [] OTHER -> IF is_printable(c) THEN <<c>> ELSE escape_unicode(c)

\* DebugType::fmt: for &c in &self.0[..] { write!(f, "{}", char::from(c).escape_debug())?; }
RECURSIVE DebugType(_)
DebugType(a) == IF a = <<>> THEN <<>> ELSE escape_debug(Head(a)) \o DebugType(Tail(a))

\* <bool as Debug>::fmt
DebugBool(b) == IF b THEN "true" ELSE "false"

\* a slip: the private field is computed by is_critical
fmt_private_from_critical(self) ==
    [name |-> "ChunkType",
     fields |-> << <<"type", DebugType(self[1])>>,
                   <<"critical", DebugBool(is_critical(self))>>,
                   <<"private", DebugBool(is_critical(self))>>,
                   <<"reserved", DebugBool(reserved_set(self))>>,
                   <<"safecopy", DebugBool(safe_to_copy(self))>> >>]

\* ChunkType::fmt: f.debug_struct("ChunkType").field(..)....finish(), which
\* writes  name { field: value, field: value, ... }  in the order of the calls
fmt(self) ==
    [name |-> "ChunkType",
     fields |-> << <<"type", DebugType(self[1])>>,
                   <<"critical", DebugBool(is_critical(self))>>,
                   <<"private", DebugBool(is_private(self))>>,
                   <<"reserved", DebugBool(reserved_set(self))>>,
                   <<"safecopy", DebugBool(safe_to_copy(self))>> >>]

----------------------------------------------------------------------------
(* #[derive(Clone, Copy, PartialEq, Eq, Hash)]                             *)

\* a slip: the last byte is left out of the comparison
eq_first_three(a, b) == \A i \in 1..3 : a[1][i] = b[1][i]

\* PartialEq::eq: the fields are compared, and [u8; 4] == [u8; 4] compares
\* element by element
eq(a, b) == \A i \in 1..4 : a[1][i] = b[1][i]

\* Hash::hash: what is written to the Hasher, the length of the field as a
\* slice and then its elements
hash(ct) == <<Len(ct[1])>> \o ct[1]

\* Clone::clone, and a Copy
clone(ct) == ct

----------------------------------------------------------------------------
(* The tags the model constructs                                           *)

Min(a, b) == IF a < b THEN a ELSE b

\* 'I', 't', '\', '0', NUL, 'u'
CtxBytes == <<73, 116, 92, 48, 0, 117>>
Ctx == {CtxBytes[i] : i \in 1..Min(NCtx, Len(CtxBytes))}

\* '\', NUL, '0', 't', 'T', 0xE9
PairBytes == <<92, 0, 48, 116, 84, 233>>
Pair == {PairBytes[i] : i \in 1..Min(NPair, Len(PairBytes))}

\* one byte any value of 0..255, at any of the four places, among bytes of Ctx
OneFree ==
    UNION {{<<v, c[1], c[2], c[3]>>, <<c[1], v, c[2], c[3]>>,
            <<c[1], c[2], v, c[3]>>, <<c[1], c[2], c[3], v>>} :
           c \in Ctx \X Ctx \X Ctx, v \in U8}

WellKnown == CRITICAL_CHUNKS \cup ANCILLARY_CHUNKS \cup EXTENSION_CHUNKS

Inputs == OneFree \cup {Field0(k) : k \in WellKnown}

PairInputs == Pair \X Pair \X Pair \X Pair

----------------------------------------------------------------------------
(* The state machine: values are constructed, then operations applied      *)

New == [op |-> "new", val |-> FALSE]

\* one tag constructed from 4 bytes, and a copy of it
InitOne ==
    \E b \in Inputs :
        /\ bytes = <<b, b>>
        /\ tag = ChunkType(b)
        /\ other = clone(ChunkType(b))
        /\ res = New

\* two tags constructed from 4 bytes each
InitPair ==
    \E a \in PairInputs, b \in PairInputs :
        /\ bytes = <<a, b>>
        /\ tag = ChunkType(a)
        /\ other = ChunkType(b)
        /\ res = New

Init == InitOne \/ InitPair

IsCritical ==
    /\ res' = [op |-> "is_critical", val |-> is_critical(tag)]
    /\ UNCHANGED <<bytes, tag, other>>

IsPrivate ==
    /\ res' = [op |-> "is_private", val |-> is_private(tag)]
    /\ UNCHANGED <<bytes, tag, other>>

ReservedSet ==
    /\ res' = [op |-> "reserved_set", val |-> reserved_set(tag)]
    /\ UNCHANGED <<bytes, tag, other>>

SafeToCopy ==
    /\ res' = [op |-> "safe_to_copy", val |-> safe_to_copy(tag)]
    /\ UNCHANGED <<bytes, tag, other>>

Fmt ==
    /\ res' = [op |-> "fmt", val |-> fmt(tag)]
    /\ UNCHANGED <<bytes, tag, other>>

ReadField ==
    /\ res' = [op |-> "field0", val |-> Field0(tag)]
    /\ UNCHANGED <<bytes, tag, other>>

Eq ==
    /\ res' = [op |-> "eq", val |-> eq(tag, other)]
    /\ UNCHANGED <<bytes, tag, other>>

Hash ==
    /\ res' = [op |-> "hash", val |-> <<hash(tag), hash(other)>>]
    /\ UNCHANGED <<bytes, tag, other>>

Next ==
    \/ IsCritical
    \/ IsPrivate
    \/ ReservedSet
    \/ SafeToCopy
    \/ Fmt
    \/ ReadField
    \/ Eq
    \/ Hash

Spec == Init /\ [][Next]_vars

----------------------------------------------------------------------------
(* Vocabulary of the properties                                            *)

\* the bit of value 32 of the byte b, by arithmetic
Bit32(b) == (b \div 32) % 2 = 1

\* the four predicate results of a tag, in the order critical, private,
\* reserved, safe to copy
Flags(ct) == <<is_critical(ct), is_private(ct), reserved_set(ct), safe_to_copy(ct)>>

\* the combinations of results the well-known constants show
WellKnownFlags == {Flags(k) : k \in WellKnown}

IsLetter(c) == c \in 65..90 \/ c \in 97..122
AllLetters(b) == \A i \in 1..4 : IsLetter(b[i])

\* the bytes b with the bit of value 32 flipped at the places of S
FlipBit32(b, S) ==
    [i \in 1..4 |-> IF i \in S THEN (IF Bit32(b[i]) THEN b[i] - 32 ELSE b[i] + 32) ELSE b[i]]

\* the type field of a Debug rendering
TypeField(r) == r.fields[1][2]

\* the index of the first '}' of s at or after i, 0 when there is none
RECURSIVE CloseAt(_, _)
CloseAt(s, i) ==
    IF i > Len(s) THEN 0 ELSE IF s[i] = 125 THEN i ELSE CloseAt(s, i + 1)

\* how long the first piece of a rendering is: one character, a backslash and
\* one character, or \u{...}; a malformed rest is one piece
PieceLen(s) ==
    IF s[1] # 92 THEN 1
    ELSE IF Len(s) < 2 THEN Len(s)
    ELSE IF s[2] # 117 THEN 2
    ELSE IF CloseAt(s, 3) = 0 THEN Len(s) ELSE CloseAt(s, 3)

\* a rendering cut into its pieces
RECURSIVE Pieces(_)
Pieces(s) ==
    IF s = <<>> THEN <<>>
    ELSE <<SubSeq(s, 1, PieceLen(s))>> \o Pieces(SubSeq(s, PieceLen(s) + 1, Len(s)))

\* the value of a hex digit character, -1 for any other character
HexValue(ch) ==
    IF ch \in 48..57 THEN ch - 48 ELSE IF ch \in 97..102 THEN ch - 87 ELSE -1

\* the number written by the hex digits h, -1 when h is not hex digits
RECURSIVE HexNumber(_)
HexNumber(h) ==
    IF h = <<>> THEN -1
    ELSE IF HexValue(h[Len(h)]) < 0 THEN -1
    ELSE IF Len(h) = 1 THEN HexValue(h[1])
    ELSE LET hi == HexNumber(SubSeq(h, 1, Len(h) - 1))
         IN  IF hi < 0 THEN -1 ELSE 16 * hi + HexValue(h[Len(h)])

\* the byte a piece stands for, -1 when it stands for none
DecodePiece(p) ==
    IF Len(p) = 1 THEN (IF p[1] = 92 THEN -1 ELSE p[1])
    ELSE IF Len(p) = 2 THEN
        CASE p[2] = 48 -> 0
          [] p[2] = 116 -> 9
          [] p[2] = 114 -> 13
          [] p[2] = 110 -> 10
          [] p[2] \in {92, 34, 39} -> p[2]
          [] OTHER -> -1
    ELSE IF Len(p) >= 5 /\ p[2] = 117 /\ p[3] = 123 /\ p[Len(p)] = 125
         THEN HexNumber(SubSeq(p, 4, Len(p) - 1))
    ELSE -1

\* the bytes a rendering stands for
Unescape(s) == LET p == Pieces(s) IN [i \in 1..Len(p) |-> DecodePiece(p[i])]

\* byte sequences whose renderings would collide if an escape were ambiguous
Rivals == {92, 48, 0} \X {92, 48, 0} \X {92, 48, 0} \X {92, 48, 0}

----------------------------------------------------------------------------
(* The properties                                                          *)

\* the renderings of the rivals
RivalRendering == [r \in Rivals |-> DebugType(r)]

\* C1: for every tag, letters or not, is_critical returns true exactly when
\* the bit of value 32 of byte 0 is clear, is_private exactly when that bit
\* of byte 1 is set, reserved_set exactly when that bit of byte 2 is set and
\* safe_to_copy exactly when that bit of byte 3 is set; nothing else of the
\* tag affects the result.
C1_PredicatesTestBit32 ==
    /\ res.op = "is_critical" => (res.val <=> ~Bit32(bytes[1][1]))
    /\ res.op = "is_private" => (res.val <=> Bit32(bytes[1][2]))
    /\ res.op = "reserved_set" => (res.val <=> Bit32(bytes[1][3]))
    /\ res.op = "safe_to_copy" => (res.val <=> Bit32(bytes[1][4]))

\* is_private is true of a tag whose byte 1 is 0xBF, no letter, while the
\* other three bytes have the bit clear
C1_Witness ==
    /\ res.op = "is_private" /\ res.val
    /\ bytes[1][2] = 191
    /\ ~Bit32(bytes[1][1]) /\ ~Bit32(bytes[1][3]) /\ ~Bit32(bytes[1][4])

\* C2: each of IHDR, PLTE, IDAT, IEND is critical, not private, has the
\* reserved bit clear and is not safe to copy.
C2_CriticalConstants ==
    tag \in CRITICAL_CHUNKS =>
        /\ res.op = "is_critical" => res.val
        /\ res.op = "is_private" => ~res.val
        /\ res.op = "reserved_set" => ~res.val
        /\ res.op = "safe_to_copy" => ~res.val

C2_Witness == tag = PLTE /\ res.op = "is_critical" /\ res.val

\* C3: each of the 11 ancillary constants is not critical, not private and
\* has the reserved bit clear.
C3_AncillaryConstants ==
    tag \in ANCILLARY_CHUNKS =>
        /\ res.op = "is_critical" => ~res.val
        /\ res.op = "is_private" => ~res.val
        /\ res.op = "reserved_set" => ~res.val

C3_Witness == tag = gAMA /\ res.op = "is_private" /\ ~res.val

\* C4: among the ancillary constants safe_to_copy is true of pHYs, tEXt,
\* zTXt and iTXt and false of the other seven.
C4_AncillarySafeToCopy ==
    (tag \in ANCILLARY_CHUNKS /\ res.op = "safe_to_copy") =>
        (res.val <=> tag \in {pHYs, tEXt, zTXt, iTXt})

C4_Witness == tag = pHYs /\ res.op = "safe_to_copy" /\ res.val

\* C5: each of acTL, fcTL, fdAT is not critical, private, has the reserved
\* bit clear and is not safe to copy.
C5_ExtensionConstants ==
    tag \in EXTENSION_CHUNKS =>
        /\ res.op = "is_critical" => ~res.val
        /\ res.op = "is_private" => res.val
        /\ res.op = "reserved_set" => ~res.val
        /\ res.op = "safe_to_copy" => ~res.val

C5_Witness == tag = fdAT /\ res.op = "is_private" /\ res.val

\* C6: the Debug rendering lists the fields type, critical, private,
\* reserved, safecopy in that order, the four boolean fields are the results
\* of is_critical, is_private, reserved_set and safe_to_copy on the same tag,
\* and IHDR renders as type IHDR, critical true and the other three false.
C6_DebugFields ==
    res.op = "fmt" =>
        /\ res.val.name = "ChunkType"
        /\ Len(res.val.fields) = 5
        /\ [i \in 1..5 |-> res.val.fields[i][1]]
               = <<"type", "critical", "private", "reserved", "safecopy">>
        /\ res.val.fields[2][2] = (IF ~Bit32(bytes[1][1]) THEN "true" ELSE "false")
        /\ res.val.fields[3][2] = (IF Bit32(bytes[1][2]) THEN "true" ELSE "false")
        /\ res.val.fields[4][2] = (IF Bit32(bytes[1][3]) THEN "true" ELSE "false")
        /\ res.val.fields[5][2] = (IF Bit32(bytes[1][4]) THEN "true" ELSE "false")
        /\ [i \in 2..5 |-> res.val.fields[i][2]]
               = [i \in 2..5 |-> DebugBool(Flags(tag)[i - 1])]
        /\ tag = IHDR =>
               res.val = [name |-> "ChunkType",
                          fields |-> << <<"type", <<73, 72, 68, 82>>>>,
                                        <<"critical", "true">>,
                                        <<"private", "false">>,
                                        <<"reserved", "false">>,
                                        <<"safecopy", "false">> >>]

C6_Witness == tag = IHDR /\ res.op = "fmt" /\ res.val.fields[2] = <<"critical", "true">>

\* C7: two tags constructed from the same 4 bytes compare equal and hash
\* identically, and two tags that differ in a byte compare unequal, whatever
\* their predicate results are.
C7_EqHashStructural ==
    /\ res.op = "eq" => (res.val <=> bytes[1] = bytes[2])
    /\ (res.op = "hash" /\ bytes[1] = bytes[2]) => res.val[1] = res.val[2]

\* two tags with the same four predicate results that differ in the last
\* byte alone compare unequal
C7_Witness ==
    /\ res.op = "eq" /\ ~res.val
    /\ \A i \in 1..3 : bytes[1][i] = bytes[2][i]
    /\ bytes[1][4] # bytes[2][4]
    /\ Flags(tag) = Flags(other)

\* C8: the bytes a tag was constructed from are read back exactly, through
\* the public field and by decoding the type field of the Debug rendering,
\* and no other byte sequence has the same rendering.
C8_RoundTrip ==
    /\ res.op = "field0" => res.val = bytes[1]
    /\ res.op = "fmt" =>
           /\ Unescape(TypeField(res.val)) = bytes[1]
           /\ \A r \in Rivals : RivalRendering[r] = TypeField(res.val) => r = bytes[1]

\* a tag of a backslash, NUL, NUL and a backslash is rendered, in eight
\* characters
C8_Witness ==
    /\ res.op = "fmt"
    /\ bytes[1] = <<92, 0, 0, 92>>
    /\ TypeField(res.val) = <<92, 92, 92, 48, 92, 48, 92, 92>>

\* C9, as the specification states it: every byte 0x20..0x7E is rendered as
\* that one character and every other byte as an escape sequence.
C9_Original ==
    res.op = "fmt" =>
        LET p == Pieces(TypeField(res.val))
        IN  /\ Len(p) = 4
            /\ \A i \in 1..4 :
                   IF bytes[1][i] \in 32..126
                   THEN p[i] = <<bytes[1][i]>>
                   ELSE Len(p[i]) >= 2 /\ p[i][1] = 92 /\ DecodePiece(p[i]) = bytes[1][i]

\* C9, amended: every byte 0x20..0x7E other than the double quote, the
\* single quote and the backslash is rendered as that one character; those
\* three are rendered as a backslash and the character; the bytes 0x00..0x1F,
\* 0x7F..0xA0 and 0xAD are rendered as an escape sequence that starts with a
\* backslash; the bytes 0xA1..0xFF other than 0xAD are rendered as the one
\* character of that code point; and every piece decodes to its byte alone.
C9_Amended ==
    res.op = "fmt" =>
        LET p == Pieces(TypeField(res.val))
        IN  /\ Len(p) = 4
            /\ \A i \in 1..4 :
                   LET c == bytes[1][i]
                   IN  /\ DecodePiece(p[i]) = c
                       /\ CASE c \in {34, 39, 92} -> p[i] = <<92, c>>
                            [] c \in (32..126) \ {34, 39, 92} -> p[i] = <<c>>
                            [] c \in (161..255) \ {173} -> p[i] = <<c>>
                            [] OTHER -> Len(p[i]) >= 2 /\ p[i][1] = 92

\* the tag I, ', I, I is rendered, the single quote as a backslash and
\* the quote
C9_Witness ==
    /\ res.op = "fmt"
    /\ bytes[1] = <<73, 39, 73, 73>>
    /\ TypeField(res.val) = <<73, 92, 39, 73, 73>>

\* C10: the four predicate results are independent: the tags got from any
\* tag by flipping the bit of value 32 of some of its bytes show all 16
\* combinations of results, and are made of letters when the first tag is;
\* the 18 well-known constants show only 4 of the combinations.
C10_FlagsIndependent ==
    res.op = "new" =>
        LET variants == {FlipBit32(bytes[1], S) : S \in SUBSET (1..4)}
        IN  /\ {Flags(ChunkType(v)) : v \in variants}
                   = BOOLEAN \X BOOLEAN \X BOOLEAN \X BOOLEAN
            /\ AllLetters(bytes[1]) => \A v \in variants : AllLetters(v)
            /\ Cardinality(WellKnownFlags) = 4

\* a tag of letters on which all four predicates are true, a combination no
\* well-known constant has
C10_Witness ==
    /\ AllLetters(bytes[1])
    /\ res.op = "safe_to_copy" /\ res.val
    /\ Flags(tag) = <<TRUE, TRUE, TRUE, TRUE>>
    /\ Flags(tag) \notin WellKnownFlags

====
